---------------------------- MODULE Spec2Model ----------------------------
(***************************************************************************)
(* Model of create-8004-agent's Monad templates:                           *)
(*   - the template generator (src/src/templates/monad.ts): pure functions *)
(*     from WizardAnswers and ChainConfig to the generated artifacts,      *)
(*   - the registration script that generateMonadRegisterScript emits      *)
(*     (its main(), uploadToIPFS() and catch handler), as a state machine, *)
(*   - the example A2A server (src/unnamed/part_000): the POST /a2a        *)
(*     JSON-RPC endpoint and its in-memory task and history maps.          *)
(*                                                                         *)
(* Text is modelled as sequences of one-character strings where the code   *)
(* works on characters (escaping, slugs), and as ordered lists of members, *)
(* lines and sections where the code builds structure.  An optional value  *)
(* (undefined or a value) is a sequence of length 0 or 1.                  *)
(***************************************************************************)
EXTENDS Integers, Sequences, FiniteSets, TLC

VARIABLES
    answers,              \* the WizardAnswers given to the generator
    monadContracts,       \* the MONAD_CONTRACTS table at run time
    artifact,             \* the last artifact a generator call returned
    env,                  \* process.env of a run of the generated register script
    pc,                   \* where that run is
    log,                  \* the steps of the flow that run has performed, in order
    world,                \* what the chain and the pinning service answered so far
    errSite,              \* the throw site of the error that ended main(), if any
    reported,             \* what the catch handler printed, if it ran
    exitCode,             \* the exit code set by process.exit, if it was called
    tasks,                \* A2A server: the tasks Map
    conversationHistory,  \* A2A server: the conversationHistory Map (contextId -> array)
    heap,                 \* A2A server: the history arrays, by reference
    reqs,                 \* A2A server: the POST /a2a requests received, in order
    nextUuid              \* A2A server: how many uuidv4() values were drawn

genVars == <<answers, monadContracts, artifact>>
regVars == <<env, pc, log, world, errSite, reported, exitCode>>
a2aVars == <<tasks, conversationHistory, heap, reqs, nextUuid>>
vars == <<answers, monadContracts, artifact, env, pc, log, world, errSite,
          reported, exitCode, tasks, conversationHistory, heap, reqs, nextUuid>>

-----------------------------------------------------------------------------
(* Bounds *)

\* Longest agentName the generator is given.
MaxNameLen == 2

\* Most existing agents the wallet is reported to own.
MaxAgentCount == 1

\* Largest gas estimate the chain returns.
MaxGas == 2

\* Most POST /a2a requests the server receives.
MaxRequests == 2

-----------------------------------------------------------------------------
(* Values *)

None == <<>>
Some(v) == <<v>>

\* JavaScript truthiness of an optional string: undefined and "" are falsy.
Truthy(opt) == opt # None /\ opt[1] # ""

QUOTE == "\""
BACKSLASH == "\\"

\* Characters agent names are drawn from: a letter, whitespace, the double
\* quote and the backslash.
NameAlphabet == {"A", " ", QUOTE, BACKSLASH}

StrUpTo(A, n) == UNION {[1..k -> A] : k \in 0..n}

\* Agent descriptions the generator is given.
Descriptions ==
    { <<>>, <<"A">>, <<QUOTE>>, <<BACKSLASH>>, <<BACKSLASH, QUOTE>>,
      <<"A", QUOTE, "A">> }

FeatureIds == {"a2a", "mcp", "x402"}

ChainIds == {"monad-mainnet", "monad-testnet", "base-sepolia"}

\* The per-chain metadata the generator is handed (config.ts is not part of
\* the sources; the fields are those the templates read).
CHAINS ==
    [c \in ChainIds |->
        CASE c = "monad-mainnet" ->
               [name |-> "Monad Mainnet", chainId |-> 143,
                rpcUrl |-> "https://rpc.monad.xyz", scanPath |-> "monad"]
          [] c = "monad-testnet" ->
               [name |-> "Monad Testnet", chainId |-> 10143,
                rpcUrl |-> "https://testnet-rpc.monad.xyz", scanPath |-> "monad-testnet"]
          [] OTHER ->
               [name |-> "Base Sepolia", chainId |-> 84532,
                rpcUrl |-> "https://sepolia.base.org", scanPath |-> "base-sepolia"]]

GeneratedKeys == {None, Some("0xKEY")}

WizardAnswers ==
    [agentName : StrUpTo(NameAlphabet, MaxNameLen),
     agentDescription : Descriptions,
     agentImage : {"https://i.imgur.com/JQxM4nO.png"},
     features : SUBSET FeatureIds,
     chain : ChainIds,
     trustModels : {<<"reputation">>},
     agentWallet : {"0x742d35Cc"},
     generatedPrivateKey : GeneratedKeys]

\* hasFeature(answers, f) of wizard.ts: membership in answers.features.
hasFeature(a, f) == f \in a.features

-----------------------------------------------------------------------------
(* Template generator: helpers *)

MONAD_CONTRACTS ==
    [mainnet |->
        [identityRegistry |-> "0x8004A169FB4a3325136EB29fA0ceB6D2e539a432",
         reputationRegistry |-> "0x8004BAa17C55a88189AE136b182e5fdA19dE9b63"],
     testnet |->
        [identityRegistry |-> "0x8004A818BFB912233c491871b3d84c89A494BD9e",
         reputationRegistry |-> "0x8004B663056A597Dffe9eCcC1965A193B7388713"]]

getMonadContracts_mut(chain) ==
    IF chain = "monad-testnet" THEN monadContracts.testnet ELSE monadContracts.mainnet

getMonadContracts(chain) ==
    IF chain = "monad-mainnet" THEN monadContracts.mainnet ELSE monadContracts.testnet

\* obj[k] = v on a JavaScript object, kept as the ordered list of its string
\* keyed members: an existing key keeps its place, a new key goes last.
ObjSet(obj, k, v) ==
    IF \E i \in 1..Len(obj) : obj[i][1] = k
    THEN [i \in 1..Len(obj) |-> IF obj[i][1] = k THEN <<k, v>> ELSE obj[i]]
    ELSE Append(obj, <<k, v>>)

ObjKeys(obj) == [i \in 1..Len(obj) |-> obj[i][1]]

ObjHas(obj, k) == \E i \in 1..Len(obj) : obj[i][1] = k

\* String.prototype.toLowerCase on the model's alphabet.
toLowerCase(s) == [i \in 1..Len(s) |-> IF s[i] = "A" THEN "a" ELSE s[i]]

IsSpace(c) == c = " "

\* s.replace(/\s+/g, "-"): every maximal run of whitespace becomes one hyphen.
RECURSIVE replaceWhitespace(_)
replaceWhitespace(s) ==
    IF s = <<>> THEN <<>>
    ELSE IF IsSpace(Head(s))
         THEN IF Len(s) > 1 /\ IsSpace(s[2])
              THEN replaceWhitespace(Tail(s))
              ELSE <<"-">> \o replaceWhitespace(Tail(s))
         ELSE <<Head(s)>> \o replaceWhitespace(Tail(s))

agentSlug(a) == replaceWhitespace(toLowerCase(a.agentName))

RECURSIVE escapeQuotes_mut(_)
escapeQuotes_mut(s) ==
    IF s = <<>> THEN <<>>
    ELSE IF Head(s) = QUOTE
         THEN <<BACKSLASH, QUOTE>> \o Tail(s)
         ELSE <<Head(s)>> \o escapeQuotes_mut(Tail(s))

\* s.replace(/"/g, '\\"'): every double quote becomes backslash, double quote.
RECURSIVE escapeQuotes(_)
escapeQuotes(s) ==
    IF s = <<>> THEN <<>>
    ELSE IF Head(s) = QUOTE
         THEN <<BACKSLASH, QUOTE>> \o escapeQuotes(Tail(s))
         ELSE <<Head(s)>> \o escapeQuotes(Tail(s))


-----------------------------------------------------------------------------
(* Template generator: the four artifacts *)

packageName(a) == replaceWhitespace(toLowerCase(a.agentName))

generateMonadPackageJson_mut(a) ==
    LET scripts0 == << <<"build", "tsc">>, <<"register", "tsx src/register.ts">> >>
        dependencies0 ==
            << <<"viem", "^2.21.0">>, <<"dotenv", "^16.3.1">>, <<"openai", "^4.68.0">> >>
        devDependencies0 ==
            << <<"@types/node", "^20.10.0">>, <<"tsx", "^4.7.0">>,
               <<"typescript", "^5.3.0">> >>
        A2A == hasFeature(a, "a2a")
        MCP == hasFeature(a, "mcp")
        scripts1 ==
            IF MCP THEN ObjSet(scripts0, "start:mcp", "tsx src/mcp-server.ts") ELSE scripts0
        dependencies1 ==
            IF MCP THEN ObjSet(dependencies0, "@modelcontextprotocol/sdk", "^1.0.0")
            ELSE dependencies0
        scripts2 ==
            IF A2A THEN ObjSet(scripts1, "start:a2a", "tsx src/a2a-server.ts") ELSE scripts1
        dependencies2 ==
            IF A2A THEN ObjSet(ObjSet(dependencies1, "express", "^4.18.2"), "uuid", "^9.0.0")
            ELSE dependencies1
        devDependencies1 ==
            IF A2A
            THEN ObjSet(ObjSet(devDependencies0, "@types/express", "^4.17.21"),
                        "@types/uuid", "^9.0.7")
            ELSE devDependencies0
    IN  [name |-> packageName(a),
         version |-> "1.0.0",
         description |-> a.agentDescription,
         type |-> "module",
         scripts |-> scripts2,
         dependencies |-> dependencies2,
         devDependencies |-> devDependencies1]

\* The manifest, as JSON.stringify writes it: the members of scripts,
\* dependencies and devDependencies in insertion order.
generateMonadPackageJson(a) ==
    LET scripts0 == << <<"build", "tsc">>, <<"register", "tsx src/register.ts">> >>
        dependencies0 ==
            << <<"viem", "^2.21.0">>, <<"dotenv", "^16.3.1">>, <<"openai", "^4.68.0">> >>
        devDependencies0 ==
            << <<"@types/node", "^20.10.0">>, <<"tsx", "^4.7.0">>,
               <<"typescript", "^5.3.0">> >>
        A2A == hasFeature(a, "a2a")
        MCP == hasFeature(a, "mcp")
        scripts1 ==
            IF A2A THEN ObjSet(scripts0, "start:a2a", "tsx src/a2a-server.ts") ELSE scripts0
        dependencies1 ==
            IF A2A THEN ObjSet(ObjSet(dependencies0, "express", "^4.18.2"), "uuid", "^9.0.0")
            ELSE dependencies0
        devDependencies1 ==
            IF A2A
            THEN ObjSet(ObjSet(devDependencies0, "@types/express", "^4.17.21"),
                        "@types/uuid", "^9.0.7")
            ELSE devDependencies0
        scripts2 ==
            IF MCP THEN ObjSet(scripts1, "start:mcp", "tsx src/mcp-server.ts") ELSE scripts1
        dependencies2 ==
            IF MCP THEN ObjSet(dependencies1, "@modelcontextprotocol/sdk", "^1.0.0")
            ELSE dependencies1
    IN  [name |-> packageName(a),
         version |-> "1.0.0",
         description |-> a.agentDescription,
         type |-> "module",
         scripts |-> scripts2,
         dependencies |-> dependencies2,
         devDependencies |-> devDependencies1]

privateKeyValue_mut(a) == "your_private_key_here"

\* answers.generatedPrivateKey || "your_private_key_here"
privateKeyValue(a) ==
    IF Truthy(a.generatedPrivateKey) THEN a.generatedPrivateKey[1]
    ELSE "your_private_key_here"

\* The .env text, line by line: a comment, an assignment KEY=value, or a
\* blank line.
generateMonadEnv(a, chain) ==
    << <<"comment", "# Required for registration">>,
       <<"assign", "PRIVATE_KEY", privateKeyValue(a)>>,
       <<"blank">>,
       <<"comment", "# RPC URL for ", chain.name>>,
       <<"assign", "RPC_URL", chain.rpcUrl>>,
       <<"blank">>,
       <<"comment", "# Pinata JWT for IPFS upload (get from https://pinata.cloud)">>,
       <<"assign", "PINATA_JWT", "your_pinata_jwt_here">>,
       <<"blank">>,
       <<"comment", "# OpenAI API key for LLM agent">>,
       <<"assign", "OPENAI_API_KEY", "your_openai_api_key_here">> >>

registerServices_mut(a) ==
    (IF hasFeature(a, "a2a") \/ hasFeature(a, "x402")
     THEN << [name |-> "A2A",
              endpoint |-> <<"https://", agentSlug(a),
                             ".example.com/.well-known/agent-card.json">>,
              version |-> "0.3.0"] >>
     ELSE << >>)
    \o
    (IF hasFeature(a, "mcp")
     THEN << [name |-> "MCP",
              endpoint |-> <<"https://", agentSlug(a), ".example.com/mcp">>,
              version |-> "2025-06-18"] >>
     ELSE << >>)

\* The services array built by generateMonadRegisterScript.
registerServices(a) ==
    (IF hasFeature(a, "a2a")
     THEN << [name |-> "A2A",
              endpoint |-> <<"https://", agentSlug(a),
                             ".example.com/.well-known/agent-card.json">>,
              version |-> "0.3.0"] >>
     ELSE << >>)
    \o
    (IF hasFeature(a, "mcp")
     THEN << [name |-> "MCP",
              endpoint |-> <<"https://", agentSlug(a), ".example.com/mcp">>,
              version |-> "2025-06-18"] >>
     ELSE << >>)

\* servicesCode: the list literal written after "services:".
servicesCode(services) ==
    IF Len(services) > 0
    THEN [open |-> "[\n", items |-> services, separator |-> ",\n", close |-> "\n  ]"]
    ELSE [open |-> "[]", items |-> << >>, separator |-> "", close |-> ""]

\* A double-quoted literal as the template writes it: the delimiter, the
\* interpolated text, the delimiter.
Quoted(text) == <<QUOTE>> \o text \o <<QUOTE>>

\* The parts of the generated register.ts that depend on the generator's
\* input; the rest of the script is the fixed text modelled further below.
generateMonadRegisterScript(a, chain) ==
    [header |-> [requirements |-> <<"PRIVATE_KEY", "PINATA_JWT", "RPC_URL">>,
                 runWith |-> <<"npm run register">>],
     chainConst |-> IF chain.chainId = 143 THEN "monad" ELSE "monadTestnet",
     chainId |-> chain.chainId,
     chainName |-> chain.name,
     rpcUrl |-> chain.rpcUrl,
     IDENTITY_REGISTRY |-> getMonadContracts(a.chain).identityRegistry,
     AGENT_METADATA |->
        [type |-> "https://eips.ethereum.org/EIPS/eip-8004#registration-v1",
         name |-> Quoted(escapeQuotes(a.agentName)),
         description |-> Quoted(escapeQuotes(a.agentDescription)),
         image |-> a.agentImage,
         services |-> servicesCode(registerServices(a)),
         x402Support |-> FALSE,
         active |-> TRUE,
         registrations |-> << >>,
         supportedTrust |-> a.trustModels],
     scanPath |-> chain.scanPath,
     nextSteps |-> <<"npm run start:a2a">>]

readmeSteps_mut(a) ==
    << [n |-> 1, title |-> "Install dependencies", commands |-> <<"npm install">>],
       [n |-> 2, title |-> "Configure environment", commands |-> << >>],
       [n |-> 3, title |-> "Fund your wallet", commands |-> << >>],
       [n |-> 4, title |-> "Register on-chain", commands |-> <<"npm run register">>] >>
    \o
    (IF hasFeature(a, "a2a")
     THEN << [n |-> 5, title |-> "Start the A2A server",
              commands |-> <<"npm run start:a2a">>] >>
     ELSE << >>)
    \o
    (IF hasFeature(a, "mcp")
     THEN << [n |-> 6, title |-> "Start the MCP server",
              commands |-> <<"npm run start:mcp">>] >>
     ELSE << >>)

\* The "### n. title" sections of the README's Quick Start, in order.
readmeSteps(a) ==
    << [n |-> 1, title |-> "Install dependencies", commands |-> <<"npm install">>],
       [n |-> 2, title |-> "Configure environment", commands |-> << >>],
       [n |-> 3, title |-> "Fund your wallet", commands |-> << >>],
       [n |-> 4, title |-> "Register on-chain", commands |-> <<"npm run register">>] >>
    \o
    (IF hasFeature(a, "a2a")
     THEN << [n |-> 5, title |-> "Start the A2A server",
              commands |-> <<"npm run start:a2a">>] >>
     ELSE << >>)
    \o
    (IF hasFeature(a, "mcp")
     THEN << [n |-> IF hasFeature(a, "a2a") THEN 6 ELSE 5,
              title |-> "Start the MCP server",
              commands |-> <<"npm run start:mcp">>] >>
     ELSE << >>)

\* The file entries under src/ in the README's project tree.
readmeTree(a) ==
    <<"register.ts", "agent.ts">>
    \o (IF hasFeature(a, "a2a") THEN <<"a2a-server.ts">> ELSE << >>)
    \o (IF hasFeature(a, "mcp") THEN <<"mcp-server.ts">> ELSE << >>)

generateMonadReadme(a, chain) ==
    [title |-> a.agentName,
     description |-> a.agentDescription,
     wallet |-> a.agentWallet,
     chainName |-> chain.name,
     steps |-> readmeSteps(a),
     contracts |-> getMonadContracts(a.chain),
     treeRoot |-> replaceWhitespace(toLowerCase(a.agentName)),
     tree |-> readmeTree(a)]

-----------------------------------------------------------------------------
(* Template generator: state machine.  The answers are drawn at Init; each *)
(* action is one generator call on them.                                   *)

InitIdleGen ==
    /\ answers = [agentName |-> <<>>, agentDescription |-> <<>>,
                  agentImage |-> "https://i.imgur.com/JQxM4nO.png",
                  features |-> {}, chain |-> "monad-testnet",
                  trustModels |-> <<"reputation">>, agentWallet |-> "0x742d35Cc",
                  generatedPrivateKey |-> None]
    /\ monadContracts = MONAD_CONTRACTS
    /\ artifact = [kind |-> "none"]

CallGetMonadContracts ==
    /\ artifact' = [kind |-> "contracts", value |-> getMonadContracts(answers.chain)]
    /\ UNCHANGED <<answers, monadContracts, regVars, a2aVars>>

CallGenerateMonadPackageJson ==
    /\ artifact' = [kind |-> "package.json", value |-> generateMonadPackageJson(answers)]
    /\ UNCHANGED <<answers, monadContracts, regVars, a2aVars>>

CallGenerateMonadEnv ==
    /\ artifact' = [kind |-> ".env",
                    value |-> generateMonadEnv(answers, CHAINS[answers.chain])]
    /\ UNCHANGED <<answers, monadContracts, regVars, a2aVars>>

CallGenerateMonadRegisterScript ==
    /\ artifact' = [kind |-> "register.ts",
                    value |-> generateMonadRegisterScript(answers, CHAINS[answers.chain])]
    /\ UNCHANGED <<answers, monadContracts, regVars, a2aVars>>

CallGenerateMonadReadme ==
    /\ artifact' = [kind |-> "README.md",
                    value |-> generateMonadReadme(answers, CHAINS[answers.chain])]
    /\ UNCHANGED <<answers, monadContracts, regVars, a2aVars>>

-----------------------------------------------------------------------------
(* The generated registration script (the text generateMonadRegisterScript *)
(* returns): main(), uploadToIPFS() and the catch handler.  One action per *)
(* stretch of code between two awaits; `log` lists what the run has done.  *)

PrivateKeys == {None, Some(""), Some("your_private_key_here"), Some("0xKEY")}
PinataJwts == {None, Some(""), Some("jwt")}
RpcUrls == {None, Some("http://localhost:8545")}

\* What response.text() of a failed upload returns.
ErrorTexts == {"", "Unauthorized"}

\* The strings of this part are sequences of characters.
TRANSFER_SIGNATURE ==
    <<"0", "x", "d", "d", "f", "2", "5", "2", "a", "d", "1", "b", "e", "2", "c", "8",
      "9", "b", "6", "9", "c", "2", "b", "0", "6", "8", "f", "c", "3", "7", "8", "d",
      "a", "a", "9", "5", "2", "b", "a", "7", "f", "1", "6", "3", "c", "4", "a", "1",
      "1", "6", "2", "8", "f", "5", "5", "a", "4", "d", "f", "5", "2", "3", "b", "3",
      "e", "f">>

\* topics[0] of an Approval event: a log that is not a Transfer.
APPROVAL_SIGNATURE ==
    <<"0", "x", "8", "c", "5", "b", "e", "1", "e", "5", "e", "b", "e", "c", "7", "d",
      "5", "b", "d", "1", "4", "f", "7", "1", "4", "2", "7", "d", "1", "e", "8", "4",
      "f", "3", "d", "d", "0", "3", "1", "4", "c", "0", "f", "7", "b", "2", "2", "9",
      "1", "e", "5", "b", "2", "0", "0", "a", "c", "8", "c", "7", "c", "3", "b", "9",
      "2", "5">>

\* A 32-byte topic as the node returns it: 0x and 64 hexadecimal digits.
Pad32(digits) ==
    <<"0", "x">> \o [i \in 1..(64 - Len(digits)) |-> "0"] \o digits

ZeroAddressTopic == Pad32(<< >>)
OwnerTopic == Pad32(<<"7", "4", "2", "d", "3", "5", "C", "c">>)
TokenIdTopic == Pad32(<<"2", "a">>)

\* The receipt logs a confirmed register transaction may carry.
ReceiptLogs ==
    { << >>,
      << [topics |-> <<APPROVAL_SIGNATURE, ZeroAddressTopic, OwnerTopic, TokenIdTopic>>] >>,
      << [topics |-> <<TRANSFER_SIGNATURE, ZeroAddressTopic, OwnerTopic>>] >>,
      << [topics |-> <<TRANSFER_SIGNATURE, ZeroAddressTopic, OwnerTopic, TokenIdTopic>>] >>,
      << [topics |-> << >>],
         [topics |-> <<TRANSFER_SIGNATURE, ZeroAddressTopic, OwnerTopic, TokenIdTopic>>] >> }

\* The value of a digit character; 99 for any other character.
DigitValue(ch) ==
    CASE ch = "0" -> 0 [] ch = "1" -> 1 [] ch = "2" -> 2 [] ch = "3" -> 3
      [] ch = "4" -> 4 [] ch = "5" -> 5 [] ch = "6" -> 6 [] ch = "7" -> 7
      [] ch = "8" -> 8 [] ch = "9" -> 9
      [] ch \in {"a", "A"} -> 10 [] ch \in {"b", "B"} -> 11
      [] ch \in {"c", "C"} -> 12 [] ch \in {"d", "D"} -> 13
      [] ch \in {"e", "E"} -> 14 [] ch \in {"f", "F"} -> 15
      [] OTHER -> 99

DecimalChar(d) == <<"0", "1", "2", "3", "4", "5", "6", "7", "8", "9">>[d + 1]

\* A BigInt magnitude is the sequence of its base-1000000 limbs, least
\* significant first; zero is the empty sequence.  MulAdd is n * m + carry.
LIMB == 1000000

RECURSIVE MulAdd(_, _, _)
MulAdd(n, m, carry) ==
    IF n = << >>
    THEN IF carry = 0 THEN << >>
         ELSE <<carry % LIMB>> \o MulAdd(<< >>, m, carry \div LIMB)
    ELSE LET v == Head(n) * m + carry
         IN  <<v % LIMB>> \o MulAdd(Tail(n), m, v \div LIMB)

\* The magnitude written by the digits in the base; None when a character
\* is not a digit of the base.
RECURSIVE ParseDigits(_, _, _)
ParseDigits(digits, base, acc) ==
    IF digits = << >> THEN Some(acc)
    ELSE IF DigitValue(Head(digits)) >= base THEN None
         ELSE LET next == MulAdd(acc, base, DigitValue(Head(digits)))
                  rest == Tail(digits)
              IN  \* the test has both evaluated before the recursive call
                  IF Len(next) >= 0 /\ Len(rest) >= 0
                  THEN ParseDigits(rest, base, next)
                  ELSE None

\* StringToBigInt ignores white space and line terminators around the
\* literal: TAB, LF, VT, FF, CR, SP, NBSP, OGHAM SPACE MARK and ZWNBSP.  The
\* remaining ones (U+2000 to U+200A, U+2028, U+2029, U+202F, U+205F, U+3000)
\* cannot be written in a string of this module, so no string here has them.
IsWhiteSpace(ch) ==
    ch \in {"\t", "\n", "", "\f", "\r", " ", " ", " ", "﻿"}

RECURSIVE TrimStart(_)
TrimStart(str) ==
    IF str # << >> /\ IsWhiteSpace(Head(str)) THEN TrimStart(Tail(str)) ELSE str

RECURSIVE TrimEnd(_)
TrimEnd(str) ==
    IF str # << >> /\ IsWhiteSpace(str[Len(str)])
    THEN TrimEnd(SubSeq(str, 1, Len(str) - 1)) ELSE str

\* The decimal digits of a limb, most significant first.
RECURSIVE DigitsOf(_)
DigitsOf(v) ==
    IF v < 10 THEN <<DecimalChar(v)>>
    ELSE DigitsOf(v \div 10) \o <<DecimalChar(v % 10)>>

\* The six digits of a limb below the most significant one.
Padded(v) == [i \in 1..(6 - Len(DigitsOf(v))) |-> "0"] \o DigitsOf(v)

RECURSIVE LowerLimbs(_)
LowerLimbs(n) ==
    IF n = << >> THEN << >> ELSE LowerLimbs(Tail(n)) \o Padded(Head(n))

\* bigint.toString(): the decimal digits, most significant first.
ToDecimalString(n) ==
    IF n = << >> THEN <<"0">>
    ELSE DigitsOf(n[Len(n)]) \o LowerLimbs(SubSeq(n, 1, Len(n) - 1))

Rest(str, from) == SubSeq(str, from, Len(str))

\* The literal of BigInt(string): "" is 0n; 0x, 0o and 0b prefixes take
\* digits of base 16, 8 and 2; otherwise decimal digits with an optional
\* sign.  None when it is not a literal.
ParseBigInt(str) ==
    LET s == TrimEnd(TrimStart(str))
        unsigned(digits, base) ==
            IF digits = << >> \/ ParseDigits(digits, base, << >>) = None THEN None
            ELSE Some([negative |-> FALSE, magnitude |-> ParseDigits(digits, base, << >>)[1]])
    IN  IF s = << >> THEN Some([negative |-> FALSE, magnitude |-> << >>])
        ELSE IF Len(s) >= 2 /\ s[1] = "0" /\ s[2] \in {"x", "X"} THEN unsigned(Rest(s, 3), 16)
        ELSE IF Len(s) >= 2 /\ s[1] = "0" /\ s[2] \in {"o", "O"} THEN unsigned(Rest(s, 3), 8)
        ELSE IF Len(s) >= 2 /\ s[1] = "0" /\ s[2] \in {"b", "B"} THEN unsigned(Rest(s, 3), 2)
        ELSE IF s[1] \in {"+", "-"}
             THEN IF unsigned(Rest(s, 2), 10) = None THEN None
                  ELSE Some([negative |-> s[1] = "-" /\ unsigned(Rest(s, 2), 10)[1].magnitude # << >>,
                             magnitude |-> unsigned(Rest(s, 2), 10)[1].magnitude])
             ELSE unsigned(s, 10)

\* BigInt(topic).toString(); None when BigInt throws a SyntaxError.
BigIntToString(hex) ==
    IF ParseBigInt(hex) = None THEN None
    ELSE Some((IF ParseBigInt(hex)[1].negative THEN <<"-">> ELSE << >>)
              \o ToDecimalString(ParseBigInt(hex)[1].magnitude))

\* log.topics[i] with JavaScript's zero-based index; undefined past the end.
Topic(l, i) == IF i + 1 <= Len(l.topics) THEN Some(l.topics[i + 1]) ELSE None

\* receipt.logs.find(log => log.topics[0] === TRANSFER_SIGNATURE)
RECURSIVE findTransferLog(_)
findTransferLog(logs) ==
    IF logs = << >> THEN None
    ELSE IF Topic(Head(logs), 0) = Some(TRANSFER_SIGNATURE) THEN Some(Head(logs))
         ELSE findTransferLog(Tail(logs))

UNKNOWN == <<"u", "n", "k", "n", "o", "w", "n">>

parseAgentId_mut(logs) ==
    IF logs = << >> THEN Some(UNKNOWN) ELSE Some(<<"0">>)

\* let agentId = 'unknown'; if (transferLog && transferLog.topics[3]) ...
\* The agent id to report; None when BigInt throws.
parseAgentId(logs) ==
    LET transferLog == findTransferLog(logs)
        tokenId == IF transferLog = None THEN None ELSE Topic(transferLog[1], 3)
    IN  IF tokenId # None /\ tokenId[1] # << >>
        THEN BigIntToString(tokenId[1])
        ELSE Some(UNKNOWN)

\* gasEstimate * 120n / 100n
gasWithBuffer(gasEstimate) == (gasEstimate * 120) \div 100

\* The messages of the script's own throw statements.
ErrorMessage(site, detail) ==
    CASE site = "missingPrivateKey" -> <<"PRIVATE_KEY not set in .env">>
      [] site = "missingPinataJwt" ->
            <<"PINATA_JWT not set in .env. Get one at https://pinata.cloud">>
      [] site = "zeroBalance" ->
            <<"Wallet has no MON. Fund it first: https://faucet.monad.xyz/">>
      [] site = "uploadFailed" -> <<"Pinata upload failed: ", detail>>
      [] site = "reverted" -> <<"Transaction reverted">>
      [] site = "BigInt" -> <<"Cannot convert ", detail, " to a BigInt">>
      [] OTHER -> <<"library error: ", detail>>

EmptyWorld ==
    [rpcUrl |-> None, balance |-> None, agentCount |-> None, ipfsUri |-> None,
     gasEstimate |-> None, gas |-> None, receiptStatus |-> None,
     receiptLogs |-> None, agentId |-> None]

InitIdleReg ==
    /\ env = [PRIVATE_KEY |-> None, PINATA_JWT |-> None, RPC_URL |-> None]
    /\ pc = "start"
    /\ log = << >>
    /\ world = EmptyWorld
    /\ errSite = None
    /\ reported = None
    /\ exitCode = None

\* throw new Error(...) inside main(): the promise main() returned rejects.
Throw(site, detail) ==
    /\ pc' = "rejected"
    /\ errSite' = Some([site |-> site, message |-> ErrorMessage(site, detail)])
    /\ UNCHANGED log

\* An awaited library call rejects (RPC or network failure).
Reject(site) ==
    /\ Throw(site, "request failed")
    /\ UNCHANGED <<world, env, reported, exitCode>>

\* main() up to its first await: validate PRIVATE_KEY, build the account and
\* the two clients, ask for the balance.
MainStart ==
    /\ UNCHANGED <<genVars, a2aVars>>
    /\ pc = "start"
    /\ IF ~Truthy(env.PRIVATE_KEY)
       THEN /\ Throw("missingPrivateKey", "")
            /\ UNCHANGED world
       ELSE IF env.PRIVATE_KEY[1] # "0xKEY"
            THEN /\ Throw("privateKeyToAccount", "invalid private key")
                 /\ world' = [world EXCEPT !.rpcUrl =
                                 IF Truthy(env.RPC_URL) THEN env.RPC_URL
                                 ELSE Some("chain.rpcUrl")]
            ELSE /\ pc' = "awaitBalance"
                 /\ log' = log \o <<"privateKeyToAccount", "createWalletClient",
                                    "createPublicClient", "getBalance">>
                 /\ world' = [world EXCEPT !.rpcUrl =
                                 IF Truthy(env.RPC_URL) THEN env.RPC_URL
                                 ELSE Some("chain.rpcUrl")]
                 /\ UNCHANGED errSite
    /\ UNCHANGED <<env, reported, exitCode>>

\* getBalance returned: zero is fatal, otherwise read the agent count.
BalanceReturns ==
    /\ UNCHANGED <<genVars, a2aVars>>
    /\ pc = "awaitBalance"
    /\ \/ \E balance \in 0..1 :
            /\ world' = [world EXCEPT !.balance = Some(balance)]
            /\ IF balance = 0
               THEN Throw("zeroBalance", "")
               ELSE /\ pc' = "awaitAgentCount"
                    /\ log' = log \o <<"readContract balanceOf">>
                    /\ UNCHANGED errSite
            /\ UNCHANGED <<env, reported, exitCode>>
       \/ Reject("getBalance")

uploadToIPFS_mut ==
    /\ pc' = "awaitFetch"
    /\ log' = log \o <<"fetch pinJSONToIPFS">>
    /\ UNCHANGED errSite

\* The code from "Agent metadata" to the first await of uploadToIPFS: the
\* PINATA_JWT check, then the upload request.
uploadToIPFS ==
    IF ~Truthy(env.PINATA_JWT)
    THEN Throw("missingPinataJwt", "")
    ELSE /\ pc' = "awaitFetch"
         /\ log' = log \o <<"fetch pinJSONToIPFS">>
         /\ UNCHANGED errSite

\* balanceOf returned: warn and pause when the wallet owns agents already,
\* otherwise go on to the upload.
AgentCountReturns ==
    /\ UNCHANGED <<genVars, a2aVars>>
    /\ pc = "awaitAgentCount"
    /\ \/ \E agentCount \in 0..MaxAgentCount :
            /\ world' = [world EXCEPT !.agentCount = Some(agentCount)]
            /\ IF agentCount > 0
               THEN /\ pc' = "awaitPause"
                    /\ log' = log \o <<"warn existing agents", "setTimeout 5000">>
                    /\ UNCHANGED errSite
               ELSE uploadToIPFS
            /\ UNCHANGED <<env, reported, exitCode>>
       \/ Reject("readContract")

\* The 5 second timer fired.
PauseElapsed ==
    /\ UNCHANGED <<genVars, a2aVars>>
    /\ pc = "awaitPause"
    /\ uploadToIPFS
    /\ UNCHANGED <<world, env, reported, exitCode>>

\* fetch returned a response: read its text when it is not OK, its JSON
\* otherwise.
FetchReturns ==
    /\ UNCHANGED <<genVars, a2aVars>>
    /\ pc = "awaitFetch"
    /\ \/ \E ok \in BOOLEAN :
            /\ pc' = IF ok THEN "awaitJson" ELSE "awaitErrorText"
            /\ log' = log \o <<IF ok THEN "response.json" ELSE "response.text">>
            /\ UNCHANGED <<world, errSite, env, reported, exitCode>>
       \/ Reject("fetch")

ErrorTextReturns ==
    /\ UNCHANGED <<genVars, a2aVars>>
    /\ pc = "awaitErrorText"
    /\ \/ /\ \E text \in ErrorTexts : Throw("uploadFailed", text)
          /\ UNCHANGED <<world, env, reported, exitCode>>
       \/ Reject("response.text")

\* The upload answered with the IPFS hash: back in main(), estimate the gas.
JsonReturns ==
    /\ UNCHANGED <<genVars, a2aVars>>
    /\ pc = "awaitJson"
    /\ \/ /\ pc' = "awaitGasEstimate"
          /\ world' = [world EXCEPT !.ipfsUri = Some(<<"ipfs://", "QmHash">>)]
          /\ log' = log \o <<"estimateContractGas register">>
          /\ UNCHANGED <<errSite, env, reported, exitCode>>
       \/ Reject("response.json")

GasEstimateReturns ==
    /\ UNCHANGED <<genVars, a2aVars>>
    /\ pc = "awaitGasEstimate"
    /\ \/ \E gasEstimate \in 1..MaxGas :
            /\ pc' = "awaitTxHash"
            /\ world' = [world EXCEPT !.gasEstimate = Some(gasEstimate),
                                      !.gas = Some(gasWithBuffer(gasEstimate))]
            /\ log' = log \o <<"writeContract register">>
            /\ UNCHANGED <<errSite, env, reported, exitCode>>
       \/ Reject("estimateContractGas")

TxHashReturns ==
    /\ UNCHANGED <<genVars, a2aVars>>
    /\ pc = "awaitTxHash"
    /\ \/ /\ pc' = "awaitReceipt"
          /\ log' = log \o <<"waitForTransactionReceipt">>
          /\ UNCHANGED <<world, errSite, env, reported, exitCode>>
       \/ Reject("writeContract")

\* The receipt arrived: reverted is fatal; otherwise read the agent id from
\* the Transfer log and print the summary.  main() returns.
ReceiptReturns ==
    /\ UNCHANGED <<genVars, a2aVars>>
    /\ pc = "awaitReceipt"
    /\ \/ \E status \in {"success", "reverted"}, logs \in ReceiptLogs :
            /\ IF status = "reverted"
               THEN /\ Throw("reverted", "")
                    /\ world' = [world EXCEPT !.receiptStatus = Some(status),
                                              !.receiptLogs = Some(logs)]
               ELSE IF parseAgentId(logs) = None
               THEN /\ Throw("BigInt", Topic(findTransferLog(logs)[1], 3)[1])
                    /\ world' = [world EXCEPT !.receiptStatus = Some(status),
                                              !.receiptLogs = Some(logs)]
               ELSE /\ pc' = "done"
                    /\ world' = [world EXCEPT !.receiptStatus = Some(status),
                                              !.receiptLogs = Some(logs),
                                              !.agentId = parseAgentId(logs)]
                    /\ log' = log \o <<"print summary">>
                    /\ UNCHANGED errSite
            /\ UNCHANGED <<env, reported, exitCode>>
       \/ Reject("waitForTransactionReceipt")

\* main().catch(...): print error.message || error, then process.exit(1).
CatchHandler ==
    /\ UNCHANGED <<genVars, a2aVars>>
    /\ pc = "rejected"
    /\ pc' = "exited"
    /\ reported' = Some(errSite[1].message)
    /\ exitCode' = Some(1)
    /\ UNCHANGED <<log, world, errSite, env>>

NextReg ==
    \/ MainStart
    \/ BalanceReturns
    \/ AgentCountReturns
    \/ PauseElapsed
    \/ FetchReturns
    \/ ErrorTextReturns
    \/ JsonReturns
    \/ GasEstimateReturns
    \/ TxHashReturns
    \/ ReceiptReturns
    \/ CatchHandler

-----------------------------------------------------------------------------
(* The example A2A server (src/unnamed/part_000): POST /a2a.               *)
(*                                                                         *)
(* Node runs one callback at a time, so a handler runs without             *)
(* interleaving up to its first await that waits for I/O.  The only such   *)
(* await is generateResponse (the LLM call): message/send is two steps,    *)
(* every other request is one.  uuidv4() is a counter of fresh ids.        *)

INVALID_REQUEST == -32600
INTERNAL_ERROR == -32603

JsonRpcVersions == {"2.0", "1.0"}
Methods == {"message/send", "tasks/get", "tasks/cancel", "tasks/list"}
RequestIds == {None, Some(7)}
ClientContextIds == {100}
UserTexts == {"hi", "yo"}

\* message.parts of a message/send request.
PartsOf(text) ==
    { << [type |-> "text", text |-> Some(text)] >>,
      << [type |-> "file", text |-> None], [type |-> "text", text |-> Some(text)] >> }

\* parts.filter(p => p.type === 'text' && p.text).map(p => p.text).join('\n'),
\* as the list of the joined texts.
RECURSIVE extractText(_)
extractText(parts) ==
    IF parts = << >> THEN << >>
    ELSE IF Head(parts).type = "text" /\ Truthy(Head(parts).text)
         THEN <<Head(parts).text[1]>> \o extractText(Tail(parts))
         ELSE extractText(Tail(parts))

MapSet(m, k, v) == [x \in DOMAIN m \cup {k} |-> IF x = k THEN v ELSE m[x]]

EmptyMap == << >>

InitIdleA2A ==
    /\ tasks = EmptyMap
    /\ conversationHistory = EmptyMap
    /\ heap = << >>
    /\ reqs = << >>
    /\ nextUuid = 0

\* conversationHistory as a client sees it: contextId -> entries.
Histories == [c \in DOMAIN conversationHistory |-> heap[conversationHistory[c]]]

ErrorResponse(code, message, id) ==
    [jsonrpc |-> "2.0", error |-> Some([code |-> code, message |-> message]),
     result |-> None, id |-> id]

ResultResponse(result, id) ==
    [jsonrpc |-> "2.0", result |-> Some(result), error |-> None, id |-> id]

\* A request whose handler has finished: what it was, which method handler
\* ran for it, and the responses written to it.
Finished(body, handler, response) ==
    [jsonrpc |-> body.jsonrpc, method |-> body.method, id |-> body.id,
     pc |-> "done", handler |-> handler, contextId |-> 0, taskId |-> 0,
     userText |-> << >>, history |-> [stored |-> FALSE, array |-> << >>],
     responses |-> <<response>>]

\* handleTasksGet: the stored task, or "Task not found".
handleTasksGet(params) ==
    IF params = None
    THEN [ok |-> FALSE, tasks |-> tasks,
          message |-> "Cannot read properties of undefined (reading 'taskId')"]
    ELSE IF params[1].taskId \notin DOMAIN tasks
         THEN [ok |-> FALSE, message |-> "Task not found", tasks |-> tasks]
         ELSE [ok |-> TRUE, result |-> tasks[params[1].taskId], tasks |-> tasks]

\* handleTasksCancel: sets the stored task's status to 'canceled'.
handleTasksCancel(params) ==
    IF params = None
    THEN [ok |-> FALSE, tasks |-> tasks,
          message |-> "Cannot read properties of undefined (reading 'taskId')"]
    ELSE IF params[1].taskId \notin DOMAIN tasks
         THEN [ok |-> FALSE, message |-> "Task not found", tasks |-> tasks]
         ELSE LET task == [tasks[params[1].taskId] EXCEPT !.status = "canceled"]
              IN  [ok |-> TRUE, result |-> task,
                   tasks |-> MapSet(tasks, params[1].taskId, task)]

\* handleMessageSend up to `await generateResponse(userText, history)`.
MessageSendStart(body) ==
    LET given == body.params[1].contextId
        fresh == given = None      \* configuration?.contextId || uuidv4()
        contextId == IF fresh THEN nextUuid + 1 ELSE given[1]
        taskId == IF fresh THEN nextUuid + 2 ELSE nextUuid + 1
        history == IF contextId \in DOMAIN conversationHistory
                   THEN [stored |-> TRUE, ref |-> conversationHistory[contextId]]
                   ELSE [stored |-> FALSE, array |-> << >>]
    IN  /\ nextUuid' = taskId
        /\ reqs' = Append(reqs,
              [jsonrpc |-> body.jsonrpc, method |-> body.method, id |-> body.id,
               pc |-> "awaitLLM", handler |-> Some("handleMessageSend"),
               contextId |-> contextId, taskId |-> taskId,
               userText |-> extractText(body.params[1].parts),
               history |-> history, responses |-> << >>])
        /\ UNCHANGED <<tasks, conversationHistory, heap>>

\* The synchronous handlers: the outcome is sent as the response.
Respond(body, handler, outcome) ==
    /\ reqs' = Append(reqs,
          Finished(body, Some(handler),
                   IF outcome.ok THEN ResultResponse(outcome.result, body.id)
                   ELSE ErrorResponse(INTERNAL_ERROR, outcome.message, body.id)))
    /\ tasks' = outcome.tasks
    /\ UNCHANGED <<conversationHistory, heap, nextUuid>>

handleMethod_mut(body) ==
    CASE body.method = "message/send" ->
            IF body.params = None
            THEN Respond(body, "handleMessageSend",
                         [ok |-> FALSE, tasks |-> tasks,
                          message |-> "Cannot destructure property 'message' of 'params' as it is undefined."])
            ELSE MessageSendStart(body)
      [] body.method = "tasks/get" ->
            Respond(body, "handleTasksGet", handleTasksGet(body.params))
      [] OTHER ->
            Respond(body, "handleTasksCancel", handleTasksCancel(body.params))

\* handleMethod: the switch on the method name.
handleMethod(body) ==
    CASE body.method = "message/send" ->
            IF body.params = None
            THEN Respond(body, "handleMessageSend",
                         [ok |-> FALSE, tasks |-> tasks,
                          message |-> "Cannot destructure property 'message' of 'params' as it is undefined."])
            ELSE MessageSendStart(body)
      [] body.method = "tasks/get" ->
            Respond(body, "handleTasksGet", handleTasksGet(body.params))
      [] body.method = "tasks/cancel" ->
            Respond(body, "handleTasksCancel", handleTasksCancel(body.params))
      [] OTHER ->
            /\ reqs' = Append(reqs,
                  Finished(body, None,
                           ErrorResponse(INTERNAL_ERROR,
                                         <<"Method not found: ", body.method>>, body.id)))
            /\ UNCHANGED <<tasks, conversationHistory, heap, nextUuid>>

\* The params a client may send with a method.
ParamsFor(method) ==
    {None} \cup
    IF method = "message/send"
    THEN { Some([contextId |-> c, parts |-> p]) :
             c \in {None} \cup {Some(x) : x \in ClientContextIds \cup DOMAIN conversationHistory},
             p \in UNION {PartsOf(t) : t \in UserTexts} }
    ELSE { Some([taskId |-> t]) : t \in 1..nextUuid }

\* app.post('/a2a', ...) up to its first wait for I/O.
PostA2A ==
    /\ UNCHANGED <<genVars, regVars>>
    /\ Len(reqs) < MaxRequests
    /\ \E jsonrpc \in JsonRpcVersions, method \in Methods, id \in RequestIds :
         \E params \in ParamsFor(method) :
            LET body == [jsonrpc |-> jsonrpc, method |-> method, id |-> id,
                         params |-> params]
            IN  IF body.jsonrpc # "2.0"
                THEN /\ reqs' = Append(reqs,
                           Finished(body, None,
                                    ErrorResponse(INVALID_REQUEST, "Invalid Request",
                                                  body.id)))
                     /\ UNCHANGED <<tasks, conversationHistory, heap, nextUuid>>
                ELSE handleMethod(body)

\* generateResponse resolved: the rest of handleMessageSend, then the
\* response.
GenerateResponseReturns(r) ==
    LET q == reqs[r]
        responseText == <<"re: ">> \o q.userText
        entries == << [role |-> "user", content |-> q.userText],
                      [role |-> "assistant", content |-> responseText] >>
        ref == IF q.history.stored THEN q.history.ref ELSE Len(heap) + 1
        task == [id |-> q.taskId, contextId |-> q.contextId, status |-> "completed",
                 messages |-> << [role |-> "user", text |-> q.userText],
                                 [role |-> "agent", text |-> responseText] >>,
                 artifacts |-> << >>]
    IN  /\ UNCHANGED <<genVars, regVars>>
        /\ q.pc = "awaitLLM"
        /\ heap' = IF q.history.stored
                   THEN [heap EXCEPT ![ref] = @ \o entries]
                   ELSE Append(heap, q.history.array \o entries)
        /\ conversationHistory' = MapSet(conversationHistory, q.contextId, ref)
        /\ tasks' = MapSet(tasks, q.taskId, task)
        /\ reqs' = [reqs EXCEPT ![r].pc = "done",
                                ![r].responses = Append(@, ResultResponse(task, q.id))]
        /\ UNCHANGED nextUuid

\* generateResponse rejected: handleMessageSend throws, the route's catch
\* answers with the error.
GenerateResponseFails(r) ==
    /\ UNCHANGED <<genVars, regVars>>
    /\ reqs[r].pc = "awaitLLM"
    /\ reqs' = [reqs EXCEPT ![r].pc = "done",
                            ![r].responses =
                                Append(@, ErrorResponse(INTERNAL_ERROR, "LLM request failed",
                                                        reqs[r].id))]
    /\ UNCHANGED <<tasks, conversationHistory, heap, nextUuid>>

NextA2A ==
    \/ PostA2A
    \/ \E r \in 1..Len(reqs) : GenerateResponseReturns(r)
    \/ \E r \in 1..Len(reqs) : GenerateResponseFails(r)

-----------------------------------------------------------------------------
(* Specifications *)

InitGen ==
    /\ answers \in WizardAnswers
    /\ monadContracts = MONAD_CONTRACTS
    /\ artifact = [kind |-> "none"]
    /\ InitIdleReg
    /\ InitIdleA2A

NextGen ==
    \/ CallGetMonadContracts
    \/ CallGenerateMonadPackageJson
    \/ CallGenerateMonadEnv
    \/ CallGenerateMonadRegisterScript
    \/ CallGenerateMonadReadme

SpecGen == InitGen /\ [][NextGen]_vars

InitReg ==
    /\ InitIdleGen
    /\ InitIdleA2A
    /\ env \in [PRIVATE_KEY : PrivateKeys, PINATA_JWT : PinataJwts, RPC_URL : RpcUrls]
    /\ pc = "start"
    /\ log = << >>
    /\ world = EmptyWorld
    /\ errSite = None
    /\ reported = None
    /\ exitCode = None

SpecReg == InitReg /\ [][NextReg]_vars

\* Node runs a continuation once the promise it awaits has settled, and the
\* catch handler once main() has rejected.
FairSpecReg == SpecReg /\ WF_vars(NextReg)

InitA2A ==
    /\ InitIdleGen
    /\ InitIdleReg
    /\ InitIdleA2A

SpecA2A == InitA2A /\ [][NextA2A]_vars

-----------------------------------------------------------------------------
(* Properties of the template generator (checked under SpecGen) *)

SeqToSet(q) == {q[i] : i \in 1..Len(q)}

NoDuplicates(q) == \A i, j \in 1..Len(q) : i # j => q[i] # q[j]

OnlyIf(cond, q) == IF cond THEN q ELSE << >>

\* C1: for every feature set F, the manifest's scripts, dependencies and
\* devDependencies are exactly the base members with their fixed values,
\* followed by the a2a members iff a2a is in F, followed by the mcp members
\* iff mcp is in F; no other member, no member changed, no key twice.
C1_ManifestMembers ==
    artifact.kind = "package.json" =>
        LET m == artifact.value
            A2A == "a2a" \in answers.features
            MCP == "mcp" \in answers.features
        IN  /\ m.scripts =
                  << <<"build", "tsc">>, <<"register", "tsx src/register.ts">> >>
                  \o OnlyIf(A2A, << <<"start:a2a", "tsx src/a2a-server.ts">> >>)
                  \o OnlyIf(MCP, << <<"start:mcp", "tsx src/mcp-server.ts">> >>)
            /\ m.dependencies =
                  << <<"viem", "^2.21.0">>, <<"dotenv", "^16.3.1">>,
                     <<"openai", "^4.68.0">> >>
                  \o OnlyIf(A2A, << <<"express", "^4.18.2">>, <<"uuid", "^9.0.0">> >>)
                  \o OnlyIf(MCP, << <<"@modelcontextprotocol/sdk", "^1.0.0">> >>)
            /\ m.devDependencies =
                  << <<"@types/node", "^20.10.0">>, <<"tsx", "^4.7.0">>,
                     <<"typescript", "^5.3.0">> >>
                  \o OnlyIf(A2A, << <<"@types/express", "^4.17.21">>,
                                    <<"@types/uuid", "^9.0.7">> >>)
            /\ NoDuplicates(ObjKeys(m.scripts))
            /\ NoDuplicates(ObjKeys(m.dependencies))
            /\ NoDuplicates(ObjKeys(m.devDependencies))

C1_Witness ==
    /\ artifact.kind = "package.json"
    /\ answers.features = {"a2a", "mcp", "x402"}
    /\ Len(artifact.value.scripts) = 4

\* C2: getMonadContracts returns the mainnet pair exactly for the chain
\* "monad-mainnet" and the testnet pair for every other identifier, and the
\* MONAD_CONTRACTS table is never modified by a generator call.
C2_ContractsByChain ==
    /\ monadContracts =
          [mainnet |->
              [identityRegistry |-> "0x8004A169FB4a3325136EB29fA0ceB6D2e539a432",
               reputationRegistry |-> "0x8004BAa17C55a88189AE136b182e5fdA19dE9b63"],
           testnet |->
              [identityRegistry |-> "0x8004A818BFB912233c491871b3d84c89A494BD9e",
               reputationRegistry |-> "0x8004B663056A597Dffe9eCcC1965A193B7388713"]]
    /\ artifact.kind = "contracts" =>
          /\ answers.chain = "monad-mainnet" <=>
                artifact.value.identityRegistry =
                    "0x8004A169FB4a3325136EB29fA0ceB6D2e539a432"
          /\ answers.chain = "monad-mainnet" =>
                artifact.value.reputationRegistry =
                    "0x8004BAa17C55a88189AE136b182e5fdA19dE9b63"
          /\ answers.chain # "monad-mainnet" =>
                artifact.value =
                    [identityRegistry |-> "0x8004A818BFB912233c491871b3d84c89A494BD9e",
                     reputationRegistry |-> "0x8004B663056A597Dffe9eCcC1965A193B7388713"]

C2_Witness ==
    /\ artifact.kind = "contracts"
    /\ answers.chain = "base-sepolia"
    /\ artifact.value.identityRegistry = "0x8004A818BFB912233c491871b3d84c89A494BD9e"

ServiceNames(items) == [i \in 1..Len(items) |-> items[i].name]

\* C5: the services list of AGENT_METADATA has one entry per enabled feature
\* among a2a and mcp: "A2A" iff a2a, "MCP" iff mcp, A2A first, and it is the
\* literal [] when neither is enabled; other features add nothing.
C5_ServicesPerFeature ==
    artifact.kind = "register.ts" =>
        LET services == artifact.value.AGENT_METADATA.services
            F == answers.features \cap {"a2a", "mcp"}
        IN  /\ Len(services.items) = Cardinality(F)
            /\ ServiceNames(services.items) =
                  OnlyIf("a2a" \in F, <<"A2A">>) \o OnlyIf("mcp" \in F, <<"MCP">>)
            /\ F = {} <=> services.open = "[]"
            /\ F # {} => services.open = "[\n" /\ services.close = "\n  ]"

C5_Witness ==
    /\ artifact.kind = "register.ts"
    /\ answers.features = {"a2a", "mcp", "x402"}
    /\ Len(artifact.value.AGENT_METADATA.services.items) = 2

CountQuotes(s, n) == Cardinality({i \in 1..n : s[i] = QUOTE})

\* `body` is `input` with each double quote written as backslash, double
\* quote and every other character kept, in the same order.
QuotesEscaped(input, body) ==
    /\ Len(body) = Len(input) + CountQuotes(input, Len(input))
    /\ \A i \in 1..Len(input) :
          LET at == i + CountQuotes(input, i - 1)
          IN  IF input[i] = QUOTE
              THEN body[at] = BACKSLASH /\ body[at + 1] = QUOTE
              ELSE body[at] = input[i]

\* The positions of the double quotes of `lit` that no backslash escapes,
\* reading from the left as a JavaScript string literal is read: a backslash
\* takes the character after it.
RECURSIVE UnescapedQuotes(_, _)
UnescapedQuotes(lit, i) ==
    IF i > Len(lit) THEN {}
    ELSE IF lit[i] = BACKSLASH THEN UnescapedQuotes(lit, i + 2)
         ELSE IF lit[i] = QUOTE THEN {i} \cup UnescapedQuotes(lit, i + 1)
              ELSE UnescapedQuotes(lit, i + 1)

Body(lit) == SubSeq(lit, 2, Len(lit) - 1)

Delimited(lit) == Len(lit) >= 2 /\ lit[1] = QUOTE /\ lit[Len(lit)] = QUOTE

\* C6 as stated: in the embedded name and description every input double
\* quote appears as backslash, double quote, every other character is
\* unchanged, and the only unescaped double quotes are the two delimiters.
C6_OnlyDelimitersUnescaped ==
    artifact.kind = "register.ts" =>
        \A field \in {"name", "description"} :
            LET lit == artifact.value.AGENT_METADATA[field]
                input == IF field = "name" THEN answers.agentName
                         ELSE answers.agentDescription
            IN  /\ Delimited(lit)
                /\ QuotesEscaped(input, Body(lit))
                /\ UnescapedQuotes(lit, 1) = {1, Len(lit)}

\* C6 (amended): every input double quote appears as backslash, double quote
\* and every other character is unchanged and in order; when the input holds
\* no backslash, the only unescaped double quotes of the embedded value are
\* the two delimiters.
C6_QuotesEscaped ==
    artifact.kind = "register.ts" =>
        \A field \in {"name", "description"} :
            LET lit == artifact.value.AGENT_METADATA[field]
                input == IF field = "name" THEN answers.agentName
                         ELSE answers.agentDescription
            IN  /\ Delimited(lit)
                /\ QuotesEscaped(input, Body(lit))
                /\ BACKSLASH \notin SeqToSet(input) =>
                      UnescapedQuotes(lit, 1) = {1, Len(lit)}

C6_Witness ==
    /\ artifact.kind = "register.ts"
    /\ answers.agentName = <<QUOTE, QUOTE>>
    /\ answers.agentDescription = <<"A", QUOTE, "A">>
    /\ artifact.value.AGENT_METADATA.name =
          <<QUOTE, BACKSLASH, QUOTE, BACKSLASH, QUOTE, QUOTE>>

IsAssignment(line) == line[1] = "assign"

\* C7: the .env text has exactly one assignment line for each of
\* PRIVATE_KEY, RPC_URL, PINATA_JWT, OPENAI_API_KEY, in that order, and no
\* other; PRIVATE_KEY is the generated key when there is one and the
\* placeholder otherwise; RPC_URL is chain.rpcUrl.
C7_EnvAssignments ==
    artifact.kind = ".env" =>
        LET assigns == SelectSeq(artifact.value, IsAssignment)
        IN  /\ [i \in 1..Len(assigns) |-> assigns[i][2]] =
                  <<"PRIVATE_KEY", "RPC_URL", "PINATA_JWT", "OPENAI_API_KEY">>
            /\ assigns[1][3] =
                  IF answers.generatedPrivateKey # None
                  THEN answers.generatedPrivateKey[1]
                  ELSE "your_private_key_here"
            /\ assigns[2][3] = CHAINS[answers.chain].rpcUrl

C7_Witness ==
    /\ artifact.kind = ".env"
    /\ answers.generatedPrivateKey = Some("0xKEY")
    /\ artifact.value[2] = <<"assign", "PRIVATE_KEY", "0xKEY">>

HasStep(readme, title) == \E i \in 1..Len(readme.steps) : readme.steps[i].title = title

\* C8: the README has the A2A (MCP) section and tree entry iff a2a (mcp) is
\* enabled; its Quick Start steps are numbered 1, 2, 3, ... without gap or
\* repeat, the MCP section being step 6 with a2a and step 5 without; and the
\* manifest of the same answers has the start script (and express, for a2a)
\* iff the README has the section.
C8_ReadmeSections ==
    artifact.kind = "README.md" =>
        LET readme == artifact.value
            manifest == generateMonadPackageJson(answers)
            A2A == "a2a" \in answers.features
            MCP == "mcp" \in answers.features
        IN  /\ HasStep(readme, "Start the A2A server") <=> A2A
            /\ HasStep(readme, "Start the MCP server") <=> MCP
            /\ "a2a-server.ts" \in SeqToSet(readme.tree) <=> A2A
            /\ "mcp-server.ts" \in SeqToSet(readme.tree) <=> MCP
            /\ \A i \in 1..Len(readme.steps) : readme.steps[i].n = i
            /\ \A i \in 1..Len(readme.steps) :
                  readme.steps[i].title = "Start the MCP server" =>
                      readme.steps[i].n = IF A2A THEN 6 ELSE 5
            /\ ObjHas(manifest.scripts, "start:a2a")
                  <=> HasStep(readme, "Start the A2A server")
            /\ ObjHas(manifest.dependencies, "express")
                  <=> HasStep(readme, "Start the A2A server")
            /\ ObjHas(manifest.scripts, "start:mcp")
                  <=> HasStep(readme, "Start the MCP server")

C8_Witness ==
    /\ artifact.kind = "README.md"
    /\ answers.features = {"mcp"}
    /\ Len(artifact.value.steps) = 5
    /\ artifact.value.steps[5].title = "Start the MCP server"

-----------------------------------------------------------------------------
(* Properties of the generated registration script *)

Did(step) == step \in SeqToSet(log)

Failed == pc \in {"rejected", "exited"}

\* C3: validation of PRIVATE_KEY and PINATA_JWT is the first step: in a run
\* where either is absent, no client is constructed and no network call
\* (balance, agent count, pause, upload) is made.  (Checked under SpecReg.)
C3_ValidationFirst ==
    (~Truthy(env.PRIVATE_KEY) \/ ~Truthy(env.PINATA_JWT)) =>
        /\ log = << >>
        /\ pc \in {"start", "rejected", "exited"}

TheFiveFailures ==
    {"missingPrivateKey", "missingPinataJwt", "zeroBalance", "uploadFailed", "reverted"}

\* The first words of the message the script reports for each of the five.
MessageStart(site) ==
    CASE site = "missingPrivateKey" -> "PRIVATE_KEY not set in .env"
      [] site = "missingPinataJwt" ->
            "PINATA_JWT not set in .env. Get one at https://pinata.cloud"
      [] site = "zeroBalance" ->
            "Wallet has no MON. Fund it first: https://faucet.monad.xyz/"
      [] site = "uploadFailed" -> "Pinata upload failed: "
      [] site = "reverted" -> "Transaction reverted"

C4_Fatal ==
    \* each of the five ends main() at once, with its own message
    /\ (~Truthy(env.PRIVATE_KEY) /\ pc # "start") =>
          Failed /\ errSite[1].site = "missingPrivateKey"
    /\ ~Truthy(env.PINATA_JWT) =>
          /\ ~Did("fetch pinJSONToIPFS")
          /\ pc \notin {"awaitFetch", "awaitJson", "awaitErrorText", "awaitGasEstimate",
                        "awaitTxHash", "awaitReceipt", "done"}
    /\ world.balance = Some(0) => Failed /\ errSite[1].site = "zeroBalance"
    /\ (Did("response.text") /\ pc # "awaitErrorText") =>
          /\ Failed
          /\ errSite[1].site \in {"uploadFailed", "response.text"}
          /\ ~Did("writeContract register")
    /\ world.receiptStatus = Some("reverted") => Failed /\ errSite[1].site = "reverted"
    /\ Failed <=> errSite # None
    \* no register transaction after the first four, no summary after any
    /\ (Failed /\ errSite[1].site \in TheFiveFailures \ {"reverted"}) =>
          ~Did("writeContract register")
    /\ Failed => ~Did("print summary")
    \* exit code 1, and the message tells the five apart
    /\ pc = "exited" => exitCode = Some(1) /\ reported = Some(errSite[1].message)
    /\ pc # "exited" => exitCode = None /\ reported = None
    /\ (Failed /\ errSite[1].site \in TheFiveFailures) =>
          /\ errSite[1].message[1] = MessageStart(errSite[1].site)
          /\ \A other \in TheFiveFailures \ {errSite[1].site} :
                errSite[1].message[1] # MessageStart(other)

C4_NothingAfterFailure ==
    Failed => /\ log' = log
              /\ pc' = "exited"
              /\ errSite' = errSite
              /\ world' = world

\* C4: missing PRIVATE_KEY, missing PINATA_JWT, zero balance, a non-OK upload
\* response and a reverted receipt are each fatal: no later step of the flow
\* runs (no register transaction after the first four, no success summary
\* after any), the run ends with exit code 1, and the five messages differ.
\* (Checked under FairSpecReg.)
C4_FailuresAreFatal ==
    /\ []C4_Fatal
    /\ [][C4_NothingAfterFailure]_vars
    /\ (Failed ~> (pc = "exited" /\ exitCode = Some(1)))

C4_Witness ==
    /\ pc = "exited"
    /\ errSite # None
    /\ errSite[1].site = "missingPinataJwt"
    /\ Did("createPublicClient")
    /\ exitCode = Some(1)

-----------------------------------------------------------------------------
(* Properties of the example A2A server (checked under SpecA2A) *)

HandledMethods == {"message/send", "tasks/get", "tasks/cancel"}

HandlerOf(method) ==
    CASE method = "message/send" -> "handleMessageSend"
      [] method = "tasks/get" -> "handleTasksGet"
      [] method = "tasks/cancel" -> "handleTasksCancel"

Rejected(q) == q.jsonrpc # "2.0" \/ q.method \notin HandledMethods

C9_Dispatch ==
    \A r \in 1..Len(reqs) :
        LET q == reqs[r]
        IN  /\ q.handler # None <=> (q.jsonrpc = "2.0" /\ q.method \in HandledMethods)
            /\ q.handler # None => q.handler = Some(HandlerOf(q.method))
            /\ q.jsonrpc # "2.0" =>
                  /\ q.pc = "done"
                  /\ Len(q.responses) = 1
                  /\ q.responses[1].error # None
                  /\ q.responses[1].error[1].code = -32600
            /\ (q.jsonrpc = "2.0" /\ q.method \notin HandledMethods) =>
                  /\ q.pc = "done"
                  /\ Len(q.responses) = 1
                  /\ q.responses[1].error # None
            /\ Len(q.responses) = IF q.pc = "done" THEN 1 ELSE 0
            /\ \A i \in 1..Len(q.responses) :
                  /\ q.responses[i].jsonrpc = "2.0"
                  /\ q.responses[i].id = q.id
                  /\ (q.responses[i].result = None) # (q.responses[i].error = None)

C9_RejectedChangesNothing ==
    (Len(reqs') = Len(reqs) + 1 /\ Rejected(reqs'[Len(reqs')])) =>
        /\ tasks' = tasks
        /\ conversationHistory' = conversationHistory
        /\ heap' = heap

\* C9: a POST /a2a request reaches a method handler iff its jsonrpc is '2.0'
\* and its method is message/send, tasks/get or tasks/cancel; any other
\* jsonrpc gets error -32600 and no handler, any other method an error
\* response; a rejected request leaves tasks and conversationHistory as they
\* were; every request gets exactly one response, with jsonrpc '2.0', the
\* request's id and exactly one of result and error.
C9_DispatchAndResponse ==
    /\ []C9_Dispatch
    /\ [][C9_RejectedChangesNothing]_vars

C9_Witness ==
    /\ tasks # EmptyMap
    /\ Len(reqs) = 2
    /\ reqs[2].jsonrpc = "1.0"
    /\ reqs[2].method = "tasks/cancel"
    /\ reqs[2].id = Some(7)
    /\ reqs[2].responses[1].error[1].code = -32600

Settled == {"completed", "failed", "canceled"}

\* C10: tasks/cancel moves a stored task to 'canceled' only when the task is
\* still running (not 'completed', 'failed' or 'canceled' already); a task
\* that is 'completed' stays 'completed'.
C10_CancelOnlyRunning ==
    [][\A t \in DOMAIN tasks :
          /\ (tasks'[t].status = "canceled" /\ tasks[t].status # "canceled") =>
                tasks[t].status \notin Settled
          /\ tasks[t].status = "completed" => tasks'[t].status = "completed"]_vars

-----------------------------------------------------------------------------
(* Cross-artifact properties of the generator (checked under SpecGen) *)

\* The script a command of the form `npm run <name>` names; None for any
\* other command.
NpmRunTarget(command) ==
    CASE command = "npm run register" -> Some("register")
      [] command = "npm run start:a2a" -> Some("start:a2a")
      [] command = "npm run start:mcp" -> Some("start:mcp")
      [] OTHER -> None

\* The commands an artifact tells the user to run.
CommandsOf(art) ==
    IF art.kind = "register.ts"
    THEN SeqToSet(art.value.header.runWith) \cup SeqToSet(art.value.nextSteps)
    ELSE IF art.kind = "README.md"
         THEN UNION {SeqToSet(art.value.steps[i].commands) :
                        i \in 1..Len(art.value.steps)}
         ELSE {}

\* C11: every `npm run <name>` command of the README's Quick Start and of
\* the register script's header and printed next steps names a key of the
\* scripts object of the manifest generated from the same answers.
C11_CommandsNameScripts ==
    \A command \in CommandsOf(artifact) :
        NpmRunTarget(command) # None =>
            ObjHas(generateMonadPackageJson(answers).scripts, NpmRunTarget(command)[1])

-----------------------------------------------------------------------------
(* Termination of the registration script (checked under FairSpecReg) *)

\* The library calls of the script; each can throw or reject.
ExternalCalls ==
    {"privateKeyToAccount", "getBalance", "readContract", "fetch", "response.text",
     "response.json", "estimateContractGas", "writeContract",
     "waitForTransactionReceipt"}

\* No library call has failed, PRIVATE_KEY and PINATA_JWT are set, the
\* balance read is not zero, the upload was not answered with an error and
\* the receipt is not reverted.
RunIsClean ==
    /\ Truthy(env.PRIVATE_KEY)
    /\ Truthy(env.PINATA_JWT)
    /\ world.balance # Some(0)
    /\ ~Did("response.text")
    /\ world.receiptStatus # Some("reverted")
    /\ errSite # None => errSite[1].site \notin ExternalCalls

StepsBeforeUpload ==
    <<"privateKeyToAccount", "createWalletClient", "createPublicClient",
      "getBalance", "readContract balanceOf">>

WarningAndPause == <<"warn existing agents", "setTimeout 5000">>

StepsFromUpload ==
    <<"fetch pinJSONToIPFS", "response.json", "estimateContractGas register",
      "writeContract register", "waitForTransactionReceipt", "print summary">>

\* The indices of the receipt's logs whose topics[0] is the Transfer signature.
TransferIndices(logs) ==
    {i \in 1..Len(logs) : Len(logs[i].topics) >= 1 /\ logs[i].topics[1] = TRANSFER_SIGNATURE}

FirstTransfer(logs) ==
    logs[CHOOSE i \in TransferIndices(logs) : \A j \in TransferIndices(logs) : i <= j]

C12_CleanRun ==
    \* none of the fatal conditions: the promise of main() is not rejected
    /\ RunIsClean => ~Failed
    \* main() returned: the summary is printed, no failure exit
    /\ pc = "done" =>
          /\ RunIsClean
          /\ exitCode = None /\ reported = None /\ errSite = None
          /\ world.balance # None /\ world.balance[1] > 0
          /\ world.receiptStatus = Some("success")
          \* the agent count only decides the warning and the pause
          /\ world.agentCount # None
          /\ log = StepsBeforeUpload
                      \o (IF world.agentCount[1] > 0 THEN WarningAndPause ELSE << >>)
                      \o StepsFromUpload
          \* the logs of the receipt only decide the reported agent id
          /\ world.receiptLogs # None /\ world.agentId # None
          /\ LET logs == world.receiptLogs[1]
             IN  IF TransferIndices(logs) = {} \/ Len(FirstTransfer(logs).topics) < 4
                 THEN world.agentId[1] = UNKNOWN
                 ELSE /\ world.agentId = BigIntToString(FirstTransfer(logs).topics[4])
                      /\ FirstTransfer(logs).topics[4] = TokenIdTopic =>
                            world.agentId[1] = <<"4", "2">>

\* C12: every run ends; a run with PRIVATE_KEY and PINATA_JWT set, a non-zero
\* balance, a successful upload, gas estimation and submission and a receipt
\* that is not reverted ends with the success summary and without the failure
\* exit.  An existing agent count above zero only adds the warning and the
\* pause before the upload; a receipt without a Transfer log, or without its
\* topics[3], only makes the reported agent id 'unknown'.
C12_CleanRunSucceeds ==
    /\ []C12_CleanRun
    /\ <>(pc \in {"done", "exited"})
    /\ (RunIsClean ~> (pc = "done" \/ ~RunIsClean))

C12_Witness ==
    /\ pc = "done"
    /\ Did("print summary")
    /\ world.agentCount = Some(1)
    /\ Did("setTimeout 5000")
    /\ world.receiptLogs =
          Some(<< [topics |-> <<TRANSFER_SIGNATURE, ZeroAddressTopic, OwnerTopic>>] >>)
    /\ world.agentId = Some(UNKNOWN)
    /\ exitCode = None

-----------------------------------------------------------------------------
(* Conversation history of the example A2A server (checked under SpecA2A) *)

\* The message/send requests that reached the await of generateResponse
\* with this contextId.
SendsOf(c) ==
    {r \in 1..Len(reqs) : reqs[r].userText # << >> /\ reqs[r].contextId = c}

Succeeded(r) ==
    /\ reqs[r].pc = "done"
    /\ Len(reqs[r].responses) = 1
    /\ reqs[r].responses[1].result # None

UserEntry(r) == [role |-> "user", content |-> reqs[r].userText]

AssistantEntry(r) == [role |-> "assistant", content |-> <<"re: ">> \o reqs[r].userText]

\* The history holds the exchange of every request of rs, each at a place of
\* its own, the user entry immediately followed by the assistant entry.
HoldsExchanges(history, rs) ==
    \E at \in [rs -> 1..Len(history)] :
        /\ \A r1, r2 \in rs : r1 # r2 => at[r1] # at[r2]
        /\ \A r \in rs :
              /\ at[r] + 1 <= Len(history)
              /\ history[at[r]] = UserEntry(r)
              /\ history[at[r] + 1] = AssistantEntry(r)

ContextIdsSent == {reqs[r].contextId : r \in {x \in 1..Len(reqs) : reqs[x].userText # << >>}}

\* C13: once all message/send requests that carry one contextId have
\* completed successfully, in whatever order they were interleaved, the
\* conversationHistory entry of that contextId contains the user entry and
\* the assistant entry of every one of them, each user entry immediately
\* followed by its assistant entry.
C13_NoExchangeLost ==
    \A c \in ContextIdsSent :
        (\A r \in SendsOf(c) : Succeeded(r)) =>
            /\ c \in DOMAIN conversationHistory
            /\ HoldsExchanges(Histories[c], SendsOf(c))

\* What one settling of generateResponse does to the two maps.
C14_Exchange ==
    \A r \in 1..Len(reqs) :
        (reqs[r].pc = "awaitLLM" /\ reqs'[r].pc = "done") =>
            LET q == reqs[r]
                response == reqs'[r].responses[1]
                before == IF q.contextId \in DOMAIN conversationHistory
                          THEN Histories[q.contextId] ELSE << >>
            IN  /\ Len(reqs'[r].responses) = 1
                /\ IF response.error # None
                   THEN \* generateResponse failed
                        /\ response.error[1].code = -32603
                        /\ response.result = None
                        /\ tasks' = tasks
                        /\ conversationHistory' = conversationHistory
                        /\ Histories' = Histories
                   ELSE \* generateResponse succeeded
                        /\ q.taskId \notin DOMAIN tasks
                        /\ DOMAIN tasks' = DOMAIN tasks \cup {q.taskId}
                        /\ \A t \in DOMAIN tasks : tasks'[t] = tasks[t]
                        /\ tasks'[q.taskId].id = q.taskId
                        /\ tasks'[q.taskId].status = "completed"
                        /\ tasks'[q.taskId].messages =
                              << [role |-> "user", text |-> q.userText],
                                 [role |-> "agent", text |-> <<"re: ">> \o q.userText] >>
                        /\ response.result = Some(tasks'[q.taskId])
                        /\ q.contextId \in DOMAIN conversationHistory'
                        /\ Histories'[q.contextId] =
                              before \o <<UserEntry(r), AssistantEntry(r)>>
                        /\ \A c \in DOMAIN conversationHistory \ {q.contextId} :
                              Histories'[c] = Histories[c]

\* C14: a message/send whose generateResponse fails is answered with error
\* -32603 and leaves the tasks map and the conversationHistory map exactly
\* as they were; a successful one stores exactly one new task (fresh id,
\* status 'completed', the user message then the agent message), appends
\* exactly two entries to the history of its contextId and leaves every
\* other task unchanged.
C14_FailedExchangeLeavesNoTrace ==
    [][C14_Exchange]_vars

=============================================================================
